---- MODULE Spec2Model ----
(***************************************************************************)
(* Model of parallel_dtptb: SWinReacher.solver (solver.py), the worklist   *)
(* attractor computation over the adjacency matrix built by                *)
(* MyGame.matrixBuilder (models.py), as driven by jobstmann.py.            *)
(*                                                                         *)
(* One behaviour is one call of solver(game, G, T, final, i).  The matrix  *)
(* G, the ownership map turn, the target set final and the attracting      *)
(* player i are the call's inputs; Removed, A (the worklist the spec calls *)
(* Q), tmpMap (the counter map the spec calls C) and index are its locals. *)
(***************************************************************************)
EXTENDS Integers, Sequences, FiniteSets, TLC

\* Number of states of the exhaustively enumerated games.
MaxN == 2

VARIABLES n, G, turn, final, i, Removed, A, tmpMap, index, todo, pc, mb

vars == <<n, G, turn, final, i, Removed, A, tmpMap, index, todo, pc, mb>>

\* the parameters and locals of solver
solverVars == <<n, G, turn, final, i, Removed, A, tmpMap, index, todo, pc>>

inputs == <<n, G, turn, final, i>>

----------------------------------------------------------------------------
(* Helpers on sequences *)

Range(s) == {s[k] : k \in 1..Len(s)}

NoDup(s) == \A j, k \in 1..Len(s) : j # k => s[j] # s[k]

\* range(m): 0, 1, ..., m-1 in order
range(m) == [k \in 1..m |-> k - 1]

Nodes(m) == 0..(m - 1)

\* The orders in which a set of states can be listed.
Orderings(S) == {s \in [1..Cardinality(S) -> S] : Range(s) = S}

\* The ascending listing of a set of integers.
Ascending(S) == CHOOSE s \in Orderings(S) : \A j, k \in 1..Len(s) : j < k => s[j] < s[k]

----------------------------------------------------------------------------
(* The game handed to the solver *)

\* T = graph.T
Transpose(M) == [p \in DOMAIN M |-> M[<<p[2], p[1]>>]]

\* the call made with T=graph in place of T=graph.T
T_Forward == G

T == Transpose(G)

\* matrix[row, col] accepts the rows -n .. n-1 and raises IndexError otherwise;
\* a negative row counts from the last one
RowOk(row) == -n <= row /\ row < n

RowOf(row) == IF row < 0 THEN row + n ELSE row

\* adj reading matrix[col, row] in place of matrix[row, col]
adj_Column(matrix, row) == SelectSeq(range(n), LAMBDA col : matrix[<<col, RowOf(row)>>] = 1)

\* adj(matrix, row): the columns holding 1 in the row, in ascending order
adj(matrix, row) == SelectSeq(range(n), LAMBDA col : matrix[<<RowOf(row), col>>] = 1)

----------------------------------------------------------------------------
(* Preprocessing: the Removed list, solver.py 51-56 *)

\* RemovedInner testing the owner of the predecessor iter1, not of iter
RemovedInner_OwnerOfPred(iter) ==
    SelectSeq(range(n), LAMBDA iter1 : G[<<iter1, iter>>] = 1 /\ turn[iter1] = 2)

RemovedInner(iter) ==
    SelectSeq(range(n), LAMBDA iter1 : G[<<iter1, iter>>] = 1 /\ turn[iter] = 2)

RECURSIVE RemovedLoop(_)
RemovedLoop(iter) ==
    IF iter >= n THEN <<>>
    ELSE (IF G[<<iter, iter>>] = 1 /\ turn[iter] = 2 THEN RemovedInner(iter) ELSE <<>>)
         \o RemovedLoop(iter + 1)

\* v0 in Removed
InRemoved(x) == x \in Range(Removed)

\* list(final): the states of the set final in the order its iteration yields
list(S) == Orderings(S)

\* InitTmpMap with the target test lost: every state starts unvisited
InitTmpMap_AllUnvisited(worklist) == [x \in Nodes(n) |-> -1]

\* tmpMap after lines 65-70
InitTmpMap(worklist) == [x \in Nodes(n) |-> IF x \in Range(worklist) THEN 0 ELSE -1]

----------------------------------------------------------------------------
(* One predecessor visit, solver.py 76-95, on st = [A, tmpMap] *)

\* lines 85-88: -1 plus the number of successors of v0 that are not in Removed
adj_counter(v0) == Len(SelectSeq(adj(G, v0), LAMBDA x : ~InRemoved(x))) - 1

\* FirstSeen with the owner test lost: every state is counted down
FirstSeen_NoOwnerTest(st, v0) ==
    IF st.tmpMap[v0] = -1
    THEN [A |-> IF adj_counter(v0) = 0 THEN Append(st.A, v0) ELSE st.A,
          tmpMap |-> [st.tmpMap EXCEPT ![v0] = adj_counter(v0)]]
    ELSE st

\* FirstSeen with A = [v0] in place of A.append(v0)
FirstSeen_Assign(st, v0) ==
    IF st.tmpMap[v0] = -1
    THEN IF turn[v0] = i
         THEN [A |-> <<v0>>, tmpMap |-> [st.tmpMap EXCEPT ![v0] = 0]]
         ELSE [A |-> IF adj_counter(v0) = 0 THEN <<v0>> ELSE st.A,
               tmpMap |-> [st.tmpMap EXCEPT ![v0] = adj_counter(v0)]]
    ELSE st

\* FirstSeen counting only the successors that are not yet in A
FirstSeen_CountOutside(st, v0) ==
    LET c == Len(SelectSeq(adj(G, v0),
                           LAMBDA x : ~InRemoved(x) /\ x \notin Range(st.A))) - 1
    IN  IF st.tmpMap[v0] = -1
        THEN IF turn[v0] = i
             THEN [A |-> Append(st.A, v0), tmpMap |-> [st.tmpMap EXCEPT ![v0] = 0]]
             ELSE [A |-> IF c = 0 THEN Append(st.A, v0) ELSE st.A,
                   tmpMap |-> [st.tmpMap EXCEPT ![v0] = c]]
        ELSE st

\* FirstSeen with tmpMap[v0] = 0 of line 81 lost
FirstSeen_NoMark(st, v0) ==
    IF st.tmpMap[v0] = -1
    THEN IF turn[v0] = i
         THEN [A |-> Append(st.A, v0), tmpMap |-> st.tmpMap]
         ELSE [A |-> IF adj_counter(v0) = 0 THEN Append(st.A, v0) ELSE st.A,
               tmpMap |-> [st.tmpMap EXCEPT ![v0] = adj_counter(v0)]]
    ELSE st

\* lines 77-91: the first time v0 is seen (tmpMap[v0] == -1)
FirstSeen(st, v0) ==
    IF st.tmpMap[v0] = -1
    THEN IF turn[v0] = i
         THEN [A |-> Append(st.A, v0), tmpMap |-> [st.tmpMap EXCEPT ![v0] = 0]]
         ELSE [A |-> IF adj_counter(v0) = 0 THEN Append(st.A, v0) ELSE st.A,
               tmpMap |-> [st.tmpMap EXCEPT ![v0] = adj_counter(v0)]]
    ELSE st

\* Countdown with tmpMap[v0] >= 0 in place of tmpMap[v0] > 0
Countdown_NonNegative(st, v0) ==
    IF turn[v0] = 2 /\ st.tmpMap[v0] >= 0
    THEN [A |-> IF st.tmpMap[v0] - 1 = 0 THEN Append(st.A, v0) ELSE st.A,
          tmpMap |-> [st.tmpMap EXCEPT ![v0] = st.tmpMap[v0] - 1]]
    ELSE st

\* Countdown with the test tmpMap[v0] > 0 lost
Countdown_NoGuard(st, v0) ==
    IF turn[v0] = 2
    THEN [A |-> IF st.tmpMap[v0] - 1 = 0 THEN Append(st.A, v0) ELSE st.A,
          tmpMap |-> [st.tmpMap EXCEPT ![v0] = st.tmpMap[v0] - 1]]
    ELSE st

\* lines 92-95: an `if`, not an `elif`, and it tests game.turn(v0) == 2
Countdown(st, v0) ==
    IF turn[v0] = 2 /\ st.tmpMap[v0] > 0
    THEN [A |-> IF st.tmpMap[v0] - 1 = 0 THEN Append(st.A, v0) ELSE st.A,
          tmpMap |-> [st.tmpMap EXCEPT ![v0] = st.tmpMap[v0] - 1]]
    ELSE st

\* visit with the test of line 76 lost
visit_NoRemovedTest(st, v0) == Countdown(FirstSeen(st, v0), v0)

\* lines 76-95
visit(st, v0) == IF ~InRemoved(v0) THEN Countdown(FirstSeen(st, v0), v0) ELSE st

----------------------------------------------------------------------------
(* MyGame.matrixBuilder(game, states, actions), models.py 72-98, on the      *)
(* frame mb = [states, actions, delta, matrix_A, todo, pc]                  *)

\* delta returns None for an action that is not enabled; no state is named -1
None == -1

\* the action identifiers the lists of actions are drawn from
ActionIds == {"a", "b"}

\* the non-empty lists of at most m entries of S
ListsOf(S, m) == UNION {[1..k -> S] : k \in 1..m}

\* dict(zip(l, range(len(l)))): a repeated key keeps its last index
dictOf(l) == [k \in Range(l) |-> (CHOOSE p \in 1..Len(l) :
                                      l[p] = k /\ \A q \in (p + 1)..Len(l) : l[q] # k) - 1]

\* the keys of that dict in iteration order: each key once, at the place of
\* its first occurrence
RECURSIVE keys(_)
keys(l) ==
    IF l = <<>> THEN <<>>
    ELSE LET front == keys(SubSeq(l, 1, Len(l) - 1))
         IN  IF l[Len(l)] \in Range(front) THEN front ELSE Append(front, l[Len(l)])

\* for s in states: for a in actions: the pairs in the order of the loops
pairsOf(ss, as) ==
    [k \in 1..(Len(ss) * Len(as)) |->
        <<ss[((k - 1) \div Len(as)) + 1], as[((k - 1) % Len(as)) + 1]>>]

\* np.zeros((m, m))
zeros(m) == [p \in Nodes(m) \X Nodes(m) |-> 0]

\* setEdge writing matrix_A[j, i] in place of matrix_A[i, j]
setEdge_Swapped(matrix, row, col) == [matrix EXCEPT ![<<col, row>>] = 1]

\* line 96: matrix_A[i, j] = 1
setEdge(matrix, row, col) == [matrix EXCEPT ![<<row, col>>] = 1]

\* no call of matrixBuilder is in progress
NoBuild == [states |-> <<>>, actions |-> <<>>, delta |-> <<>>, matrix_A |-> <<>>,
            todo |-> <<>>, pc |-> "idle"]

----------------------------------------------------------------------------
(* The games the solver is called on *)

Matrix(m, edges) == [p \in Nodes(m) \X Nodes(m) |-> IF p \in edges THEN 1 ELSE 0]

\* jobstmann.py: states 0..3, actions (0,1), (1,2), (2,3), state 2 is player 1's
ScenarioA_G == Matrix(4, {<<0, 1>>, <<1, 2>>, <<2, 3>>})
ScenarioA_turn == [s \in Nodes(4) |-> IF s \in {2} THEN 1 ELSE 2]

\* the same game with the extra edge 1 -> 4 into a dead end
ScenarioB_G == Matrix(5, {<<0, 1>>, <<1, 2>>, <<2, 3>>, <<1, 4>>})
ScenarioB_turn == [s \in Nodes(5) |-> IF s \in {2} THEN 1 ELSE 2]

\* a diamond 0 -> {1, 2} -> 3 with the chord 2 -> 1; state 0 has no incoming edge
ScenarioD_G == Matrix(4, {<<0, 1>>, <<0, 2>>, <<2, 1>>, <<1, 3>>, <<2, 3>>})

\* a fan 0 -> {1, 2, 3} with 1 -> 3 and 2 -> 3: state 0 has three successors
ScenarioE_G == Matrix(4, {<<0, 1>>, <<0, 2>>, <<0, 3>>, <<1, 3>>, <<2, 3>>})

IsScenarioA == n = 4 /\ G = ScenarioA_G /\ turn = ScenarioA_turn /\ final = {3} /\ i = 1

IsScenarioB == n = 5 /\ G = ScenarioB_G /\ turn = ScenarioB_turn /\ final = {3} /\ i = 1

\* Every ownership, target set and attracting player over a graph of m states.
GamesOn(m, graphs) ==
    /\ n = m
    /\ G \in graphs
    /\ turn \in [Nodes(m) -> {1, 2}]
    /\ final \in SUBSET Nodes(m)
    /\ i \in {1, 2}

\* Every game of MaxN states, and every game over the scenario graphs.
InitInputs ==
    \/ GamesOn(MaxN, [Nodes(MaxN) \X Nodes(MaxN) -> {0, 1}])
    \/ GamesOn(4, {ScenarioA_G})
    \/ GamesOn(5, {ScenarioB_G})
    \/ GamesOn(4, {ScenarioD_G})
    \/ GamesOn(4, {ScenarioE_G})

Init ==
    /\ InitInputs
    /\ Removed = <<>>
    /\ A = <<>>
    /\ tmpMap = [x \in Nodes(n) |-> 0]
    /\ index = 0
    /\ todo = <<>>
    /\ pc = "start"
    /\ mb = NoBuild

----------------------------------------------------------------------------
(* The steps of solver *)

\* lines 51-73: Removed, A = list(final), tmpMap, index = 0
Setup ==
    /\ pc = "start"
    /\ Removed' = RemovedLoop(0)
    /\ A' \in list(final)
    /\ tmpMap' = InitTmpMap(A')
    /\ index' = 0
    /\ pc' = "while"
    /\ UNCHANGED <<mb, inputs, todo>>

\* lines 74-75: the loop test holds, the predecessors of A[index] are listed
While ==
    /\ pc = "while"
    /\ index < Len(A)
    /\ RowOk(A[index + 1])
    /\ todo' = adj(T, A[index + 1])
    /\ pc' = "for"
    /\ UNCHANGED <<mb, inputs, Removed, A, tmpMap, index>>

\* lines 76-95 for the next predecessor v0 of the listing
Visit ==
    /\ pc = "for"
    /\ todo # <<>>
    /\ LET st == visit([A |-> A, tmpMap |-> tmpMap], Head(todo))
       IN  /\ A' = st.A
           /\ tmpMap' = st.tmpMap
    /\ todo' = Tail(todo)
    /\ UNCHANGED <<mb, inputs, Removed, index, pc>>

\* line 96
Advance ==
    /\ pc = "for"
    /\ todo = <<>>
    /\ index' = index + 1
    /\ pc' = "while"
    /\ UNCHANGED <<mb, inputs, Removed, A, tmpMap, todo>>

\* lines 74, 97: the loop test fails, A is returned
Return ==
    /\ pc = "while"
    /\ index >= Len(A)
    /\ pc' = "done"
    /\ UNCHANGED <<mb, inputs, Removed, A, tmpMap, index, todo>>

Next == Setup \/ While \/ Visit \/ Advance \/ Return

Spec == Init /\ [][Next]_vars

\* The call runs to its return without waiting for anything.
LiveSpec == Init /\ [][Next]_vars /\ WF_vars(Next)

----------------------------------------------------------------------------
(* The solve called with any player tag and with targets outside 0 .. n-1 *)

ErrInputs ==
    /\ n = MaxN
    /\ G \in [Nodes(MaxN) \X Nodes(MaxN) -> {0, 1}]
    /\ turn \in [Nodes(MaxN) -> {1, 2}]
    /\ final \in SUBSET (-1 .. MaxN)
    /\ i \in 0..3

ErrInit ==
    /\ ErrInputs
    /\ Removed = <<>>
    /\ A = <<>>
    /\ tmpMap = [x \in Nodes(n) |-> 0]
    /\ index = 0
    /\ todo = <<>>
    /\ pc = "start"
    /\ mb = NoBuild

\* lines 75, 36: adj(T, A[index]) indexes T outside its rows; the exception
\* leaves solver
Raise ==
    /\ pc = "while"
    /\ index < Len(A)
    /\ ~RowOk(A[index + 1])
    /\ pc' = "IndexError"
    /\ UNCHANGED <<mb, inputs, Removed, A, tmpMap, index, todo>>

ErrNext == Setup \/ While \/ Visit \/ Advance \/ Return \/ Raise

ErrSpec == ErrInit /\ [][ErrNext]_vars

----------------------------------------------------------------------------
(* A call of matrixBuilder on any lists of states and actions and any delta *)

BuildInit ==
    /\ \E ss \in ListsOf(Nodes(MaxN), MaxN), as \in ListsOf(ActionIds, 2) :
          \E d \in [Range(ss) \X Range(as) -> Nodes(MaxN) \cup {None}] :
              mb = [states |-> ss, actions |-> as, delta |-> d, matrix_A |-> <<>>,
                    todo |-> <<>>, pc |-> "start"]
    /\ n = 0 /\ G = <<>> /\ turn = <<>> /\ final = {} /\ i = 1
    /\ Removed = <<>> /\ A = <<>> /\ tmpMap = <<>> /\ index = 0 /\ todo = <<>>
    /\ pc = "idle"

\* lines 78-86: the two dicts, the zero matrix, and the loops set up
BuildStart ==
    /\ mb.pc = "start"
    /\ mb' = [mb EXCEPT !.matrix_A = zeros(Len(mb.states)),
                        !.todo = pairsOf(keys(mb.states), keys(mb.actions)),
                        !.pc = "loop"]
    /\ UNCHANGED solverVars

\* lines 89-96 for the next (s, a): delta is absent, or the edge is written
BuildStep ==
    /\ mb.pc = "loop"
    /\ mb.todo # <<>>
    /\ LET s == Head(mb.todo)[1]
           a == Head(mb.todo)[2]
           ds == mb.delta[<<s, a>>]
           states == dictOf(mb.states)
       IN  /\ ds = None \/ ds \in DOMAIN states
           /\ mb' = [mb EXCEPT !.matrix_A = IF ds = None THEN @
                                            ELSE setEdge(@, states[s], states[ds]),
                               !.todo = Tail(@)]
    /\ UNCHANGED solverVars

\* line 93: states[ds] raises KeyError for a ds that is not a declared state
BuildRaise ==
    /\ mb.pc = "loop"
    /\ mb.todo # <<>>
    /\ LET ds == mb.delta[Head(mb.todo)]
       IN  ds # None /\ ds \notin Range(mb.states)
    /\ mb' = [mb EXCEPT !.pc = "KeyError"]
    /\ UNCHANGED solverVars

\* line 98: return matrix_A
BuildReturn ==
    /\ mb.pc = "loop"
    /\ mb.todo = <<>>
    /\ mb' = [mb EXCEPT !.pc = "done"]
    /\ UNCHANGED solverVars

BuildNext == BuildStart \/ BuildStep \/ BuildRaise \/ BuildReturn

BuildSpec == BuildInit /\ [][BuildNext]_vars

----------------------------------------------------------------------------
(* The same solve with the predecessors of an entry taken in any order *)

VisitAny ==
    /\ pc = "for"
    /\ todo # <<>>
    /\ \E k \in 1..Len(todo) :
          /\ LET st == visit([A |-> A, tmpMap |-> tmpMap], todo[k])
             IN  /\ A' = st.A
                 /\ tmpMap' = st.tmpMap
          /\ todo' = SubSeq(todo, 1, k - 1) \o SubSeq(todo, k + 1, Len(todo))
    /\ UNCHANGED <<mb, inputs, Removed, index, pc>>

NextAnyOrder == Setup \/ While \/ VisitAny \/ Advance \/ Return

OrderSpec == Init /\ [][NextAnyOrder]_vars

----------------------------------------------------------------------------
(* The loop of lines 74-97 run as the code runs it, on a given worklist *)

\* lines 75-95: the predecessors in the order adj lists them
RECURSIVE forLoop(_, _)
forLoop(st, preds) ==
    IF preds = <<>> THEN st ELSE forLoop(visit(st, Head(preds)), Tail(preds))

\* lines 74-97
RECURSIVE whileLoop(_, _)
whileLoop(st, idx) ==
    IF idx < Len(st.A)
    THEN whileLoop(forLoop(st, adj(T, st.A[idx + 1])), idx + 1)
    ELSE st.A

\* lines 59-97 with list(final) = worklist
solver(worklist) == whileLoop([A |-> worklist, tmpMap |-> InitTmpMap(worklist)], 0)

----------------------------------------------------------------------------
(* Vocabulary of the claims *)

InLoop == pc \in {"while", "for", "done"}

\* the returned winning region
Won == Range(A)

RemovedSet == Range(Removed)

Succ(s) == {t \in Nodes(n) : G[<<s, t>>] = 1}

NonRemovedSucc(s) == Succ(s) \ RemovedSet

Opponent(s) == turn[s] # i

\* rule (a): a non-Removed state of player i with an edge into X
RuleA(X) == {s \in Nodes(n) : turn[s] = i /\ s \notin RemovedSet /\ Succ(s) \cap X # {}}

\* rule (b): an opponent state whose edges to non-Removed states all go into X
\* (a Removed state never enters the record, so s is taken outside Removed)
RuleB(X) ==
    {s \in Nodes(n) : /\ Opponent(s)
                      /\ s \notin RemovedSet
                      /\ NonRemovedSucc(s) # {}
                      /\ NonRemovedSucc(s) \subseteq X}

RECURSIVE Attr(_)
Attr(X) ==
    LET Y == X \cup RuleA(X) \cup RuleB(X)
    IN  IF Y = X THEN X ELSE Attr(Y)

\* C1: the returned set is the least set that contains F and is closed under
\* rules (a) and (b), with Removed as the preprocessing pass computed it.
C1_LeastFixpoint == pc = "done" => Won = Attr(final)

\* C2: on Scenario B (target {3}, attracting player 1) the solver returns
\* exactly {2, 3}.
C2_ScenarioB == (pc = "done" /\ IsScenarioB) => Won = {2, 3}

\* C3: every opponent-owned non-target state of the returned region has all
\* its non-Removed successors in the returned region.
C3_NoEscape ==
    pc = "done" =>
        \A s \in Won : (Opponent(s) /\ s \notin final) => NonRemovedSucc(s) \subseteq Won

\* C4: every opponent-owned state with at least one non-Removed successor and
\* all of them in the returned region is in the returned region.  The claim is
\* stated for the states outside Removed only: a Removed state is skipped by
\* the loop whoever owns it.
C4_RuleBClosed ==
    pc = "done" =>
        \A s \in Nodes(n) \ RemovedSet :
            (Opponent(s) /\ NonRemovedSucc(s) # {} /\ NonRemovedSucc(s) \subseteq Won)
                => s \in Won

\* C5: every non-Removed state of the attracting player with a successor in
\* the returned region is in the returned region.
C5_RuleAClosed ==
    pc = "done" =>
        \A s \in Nodes(n) :
            (turn[s] = i /\ s \notin RemovedSet /\ Succ(s) \cap Won # {}) => s \in Won

\* a non-target state of the attracting player was pulled in by an edge
C5_Witness ==
    /\ pc = "done"
    /\ \E s \in Won \ final : turn[s] = i /\ Succ(s) \cap Won # {}

\* C6: at every step of the loop and at the return, every target state is in
\* the worklist.
C6_TargetsInWorklist == InLoop => final \subseteq Won

\* the worklist has grown past a non-empty target set
C6_Witness == pc = "done" /\ final # {} /\ Won # final

\* C7: for a fixed game, target set and attracting player, the returned set
\* is the same whatever the order of the targets in the initial worklist and
\* whatever the order in which the predecessors of an entry are visited: it is
\* the set the loop returns with both taken in ascending order.
C7_OrderIndependent == pc = "done" => Won = Range(solver(Ascending(final)))

\* a solve that listed two targets in descending order and visited two
\* predecessors of one entry
C7_Witness ==
    /\ pc = "done"
    /\ Len(A) > Cardinality(final)
    /\ \E j \in 1..(Cardinality(final) - 1) : A[j] > A[j + 1]
    /\ \E t \in Won : Cardinality({s \in Nodes(n) \ RemovedSet : G[<<s, t>>] = 1}) >= 2

\* C8: the loop reaches index == |Q| and returns, and |Q| <= n throughout.
C8_Termination == <>(pc = "done" /\ index = Len(A)) /\ [](Len(A) <= n)

\* a solve that returned with every state in the worklist, not all targets
C8_Witness == pc = "done" /\ index = n /\ Len(A) = n /\ Cardinality(final) < n

\* C9: the worklist holds each state at most once at every step.
C9_NoDuplicates == InLoop => NoDup(A)

\* an opponent-owned state first seen with counter 0 or 1 is in the worklist
C9_Witness ==
    /\ pc = "done"
    /\ \E s \in Won \ final : Opponent(s) /\ Cardinality(NonRemovedSucc(s)) = 1
    /\ \E s \in Won \ final : Opponent(s) /\ Cardinality(NonRemovedSucc(s)) = 2

\* C10 as stated: no Removed state is in the worklist at any step, target sets
\* holding Removed states included.
C10_NoRemovedInWorklist == InLoop => Won \cap RemovedSet = {}

\* C10 amended: a Removed state is in the worklist only as a target; the loop
\* never appends one.
C10_RemovedOnlyAsTarget == InLoop => (Won \cap RemovedSet) \subseteq final

\* a Removed non-target state with an edge into the returned region was skipped
C10_Witness ==
    /\ pc = "done"
    /\ \E s \in RemovedSet \ final : Succ(s) \cap Won # {}

\* C11: on Scenario A (the game of jobstmann.py, target {3}, attracting
\* player 1) the solver returns exactly {0, 1, 2, 3}.
C11_ScenarioA == (pc = "done" /\ IsScenarioA) => Won = {0, 1, 2, 3}

\* the solve of Scenario A has returned
C11_Witness == pc = "done" /\ IsScenarioA /\ Len(A) = 4

Pred(s) == {t \in Nodes(n) : G[<<t, s>>] = 1}

\* the states from which some state of X is reachable along edges of G
RECURSIVE CanReach(_)
CanReach(X) ==
    LET Y == X \cup {s \in Nodes(n) : Succ(s) \cap X # {}}
    IN  IF Y = X THEN X ELSE CanReach(Y)

\* C12 as stated: a state with no incoming edge that is not a target is never
\* in the worklist.
C12_NoIncomingNeverAdded ==
    InLoop => \A s \in Nodes(n) : (Pred(s) = {} /\ s \notin final) => s \notin Won

\* C12 amended: a state that is not a target and from which no target can be
\* reached along the edges of G is never in the worklist, whatever its
\* incoming edges.
C12_OnlyStatesReachingTarget == InLoop => Won \subseteq CanReach(final)

\* a returned region that left out a state with outgoing and incoming edges
\* because no target can be reached from it
C12_Witness ==
    /\ pc = "done"
    /\ Won # final
    /\ \E s \in Nodes(n) \ CanReach(final) : Succ(s) # {} /\ Pred(s) # {}

\* C20: whatever the attracting player, Removed holds exactly the states v1
\* with an edge into a self-looping player-2 state v (v itself included), and
\* the loop leaves it as the preprocessing pass built it.
C20_RemovedSet ==
    InLoop =>
        RemovedSet = {v1 \in Nodes(n) :
                         \E v0 \in Nodes(n) :
                             G[<<v0, v0>>] = 1 /\ turn[v0] = 2 /\ G[<<v1, v0>>] = 1}

\* a solve for player 2 has returned with a player-1 predecessor of a
\* self-looping player-2 state in Removed
C20_Witness ==
    /\ pc = "done"
    /\ i = 2
    /\ Won # {}
    /\ \E v1 \in RemovedSet : turn[v1] = 1 /\ G[<<v1, v1>>] = 0

\* the number of times s has been visited as a predecessor of a worklist
\* entry: once for each processed entry it has an edge to
Visits(s) ==
    Cardinality({k \in 1..index : G[<<s, A[k]>>] = 1})
    + (IF pc = "for" /\ G[<<s, A[index + 1]>>] = 1 /\ s \notin Range(todo) THEN 1 ELSE 0)

Pending(s) == Opponent(s) /\ s \notin RemovedSet /\ tmpMap[s] > 0

\* C17: after every predecessor visit the counter of a pending state is the
\* number of its non-Removed successors minus the number of its visits, and an
\* opponent-owned non-target state with k >= 1 non-Removed successors is in
\* the worklist exactly from its k-th visit on.
C17_CounterInvariant ==
    InLoop =>
        \A s \in Nodes(n) :
            /\ Pending(s) => tmpMap[s] = Cardinality(NonRemovedSucc(s)) - Visits(s)
            /\ (Opponent(s) /\ s \notin RemovedSet /\ s \notin final /\ NonRemovedSucc(s) # {})
                   => (s \in Won <=> Visits(s) >= Cardinality(NonRemovedSucc(s)))

\* C18: with i = 2, a player-1 state outside Removed and the targets whose
\* k >= 2 non-Removed successors are all in the returned region is returned.
C18_CountdownForPlayer2 ==
    (pc = "done" /\ i = 2) =>
        \A s \in Nodes(n) \ (RemovedSet \cup final) :
            (turn[s] = 1 /\ Cardinality(NonRemovedSucc(s)) >= 2 /\ NonRemovedSucc(s) \subseteq Won)
                => s \in Won

\* C19: across every step of the loop a counter at 0 stays at 0, a pending
\* counter never increases and never returns to -1, no counter drops below
\* -1, and a state of the attracting player is never pending.
C19_MonotonePhases ==
    [][InLoop =>
         \A s \in Nodes(n) :
             /\ tmpMap[s] = 0 => tmpMap'[s] = 0
             /\ tmpMap[s] > 0 => (tmpMap'[s] >= 0 /\ tmpMap'[s] <= tmpMap[s])
             /\ tmpMap'[s] >= -1
             /\ turn[s] = i => tmpMap'[s] <= 0]_vars

\* a returned region with a state that was pending before it was won (an
\* opponent-owned state of three successors, appended on a later visit) and a
\* state won directly
C19_Witness ==
    /\ pc = "done"
    /\ \E s \in Won \ final :
          Opponent(s) /\ Cardinality(NonRemovedSucc(s)) >= 3 /\ Visits(s) >= 2
    /\ \E s \in Won \ final : turn[s] = i

\* a predecessor is about to be processed, or a region has been returned
Proceeds == (pc = "for" /\ todo # <<>>) \/ pc = "done"

\* C14: called with a player tag that is not 1 or 2, the solve fails before
\* any predecessor is processed and returns no winning region.
C14_InvalidPlayer == i \notin {1, 2} => ~Proceeds

\* C15: called with a target outside the declared states 0 .. n-1, the solve
\* fails before any predecessor is processed and returns no winning region.
C15_InvalidTarget == ~(final \subseteq Nodes(n)) => ~Proceeds

\* the Game Model has duplicate-free states and actions and delta returns
\* declared states only
WellFormed ==
    /\ NoDup(mb.states)
    /\ NoDup(mb.actions)
    /\ \A p \in DOMAIN mb.delta : mb.delta[p] \in Range(mb.states) \cup {None}

\* C13: for a well-formed Game Model matrixBuilder returns the n x n matrix
\* with A[index(s)][index(t)] = 1 exactly when some action leads from s to t,
\* and the matrix handed on as T = graph.T has T[i][j] = A[j][i].
C13_MatrixBuilder ==
    (mb.pc = "done" /\ WellFormed) =>
        LET m == Len(mb.states)
        IN  /\ DOMAIN mb.matrix_A = Nodes(m) \X Nodes(m)
            /\ \A p, q \in 1..m :
                  mb.matrix_A[<<p - 1, q - 1>>] =
                      IF \E a \in Range(mb.actions) :
                             mb.delta[<<mb.states[p], a>>] = mb.states[q]
                      THEN 1 ELSE 0
            /\ \A p, q \in Nodes(m) :
                  Transpose(mb.matrix_A)[<<p, q>>] = mb.matrix_A[<<q, p>>]

\* a matrix was returned for a game whose states are not listed in the order
\* of their names, with two actions leading from one state to the same
\* target, an absent transition and an edge between two different states
C13_Witness ==
    /\ mb.pc = "done"
    /\ WellFormed
    /\ Len(mb.states) >= 2
    /\ mb.states[1] > mb.states[2]
    /\ Range(mb.actions) = ActionIds
    /\ \E s \in Range(mb.states) :
          mb.delta[<<s, "a">>] = mb.delta[<<s, "b">>] /\ mb.delta[<<s, "a">>] \notin {None, s}
    /\ \E p \in DOMAIN mb.delta : mb.delta[p] = None

\* C16: matrixBuilder produces no matrix when the states or the actions hold
\* a repeated entry or delta returns a state that is not declared.
C16_DomainError == ~WellFormed => mb.pc # "done"

\* C21: after every predecessor visit a state is in the worklist exactly when
\* its counter is 0, and every state is unvisited (counter -1, not in the
\* worklist), pending (counter > 0, not in the worklist) or won (counter 0,
\* in the worklist).
C21_WorklistCounterAgree ==
    InLoop =>
        /\ Won \subseteq Nodes(n)
        /\ \A s \in Nodes(n) :
              \/ tmpMap[s] = -1 /\ s \notin Won
              \/ tmpMap[s] > 0 /\ s \notin Won
              \/ tmpMap[s] = 0 /\ s \in Won

\* a visit has ended with a state in each of the three phases, the won one
\* appended by the loop
C21_Witness ==
    /\ pc = "for"
    /\ \E s \in Nodes(n) : tmpMap[s] = -1
    /\ \E s \in Nodes(n) : tmpMap[s] > 0
    /\ \E s \in Won \ final : tmpMap[s] = 0

\* C22: a state with no outgoing edge that is not a target is never in the
\* worklist.
C22_DeadEndNeverAdded ==
    InLoop => \A s \in Nodes(n) : (Succ(s) = {} /\ s \notin final) => s \notin Won

\* a returned region that grew past the targets and left out a dead end with
\* an edge coming from a returned state
C22_Witness ==
    /\ pc = "done"
    /\ Won # final
    /\ \E s \in Nodes(n) \ final : Succ(s) = {} /\ Pred(s) \cap Won # {}

====
